---- MODULE Spec2Model ----
(***************************************************************************)
(* Model of the grammar-checking HTTP worker (src/src/main.rs).            *)
(*                                                                         *)
(* One request is followed from its arrival to its response.  The handler  *)
(* `process` is cut at its await points: bundle.create (line 137) and      *)
(* pipeline.forward / stream.next (lines 145-147).  What the pipeline      *)
(* engine answers at those points is chosen nondeterministically.          *)
(*                                                                         *)
(* Data representation                                                     *)
(*   Option<T>          None / Some(x)                                     *)
(*   String (text)      sequence of one-character strings                  *)
(*   serde_json::Value  record tagged by t: "null", "float", "num", "str", *)
(*                      "arr", "obj"                                       *)
(*   JSON integer       sign and four 16-bit words, least significant      *)
(*                      first (a u64 magnitude); u32 is two such words     *)
(***************************************************************************)
EXTENDS Integers, Sequences, FiniteSets, TLC

VARIABLES
    lang,          \* Data<Language>: the configured default language
    pc,            \* "idle" | "create" | "next" | "done"
    route,         \* "none" | "post" | "health" | "prefs" | "get"
    body,          \* Json<ProcessInput> of the request
    query,         \* Query<ProcessQuery> of the request
    header,        \* the request's Accept-Language header (Option)
    text,          \* process: local `text` (trimmed)
    locales,       \* process / preferences_get: local `locales`
    config,        \* process: local `config["suggest"]` (Option)
    createCalls,   \* number of bundle.create calls made for the request
    forwardCalls,  \* number of pipeline.forward calls made for the request
    nextCalls,     \* number of stream.next calls made for the request
    output,        \* what stream.next produced (Option)
    result,        \* what `process` returned (Option)
    log,           \* the tracing::error! messages written for the request
    resp           \* the HTTP response of the request (Option)

vars == <<lang, pc, route, body, query, header, text, locales,
          config, createCalls, forwardCalls, nextCalls, output, result, log,
          resp>>

-----------------------------------------------------------------------------
(* Bounds *)

MaxText == 2
MaxHeader == 2
MaxEntries == 2

-----------------------------------------------------------------------------
(* Option<T> *)

None == [some |-> FALSE]
Some(x) == [some |-> TRUE, v |-> x]

(* http::StatusCode *)
OK == 200
BAD_REQUEST == 400
INTERNAL_SERVER_ERROR == 500

-----------------------------------------------------------------------------
(* serde_json::Value *)

JNull == [t |-> "null"]
JFloat == [t |-> "float"]
JStr(s) == [t |-> "str", s |-> s]
JInt(neg, w) == [t |-> "num", neg |-> neg, w |-> w]
JArr(a) == [t |-> "arr", a |-> a]
JObj(o) == [t |-> "obj", o |-> o]

\* Value::get(key): Some only on an object that has the key
JGet(val, key) ==
    IF val.t = "obj" /\ key \in DOMAIN val.o THEN Some(val.o[key]) ELSE None

\* Value::get(index): Some only on an array long enough
JIndex(arr, i) == IF i + 1 <= Len(arr) THEN Some(arr[i + 1]) ELSE None

\* Value::as_str
as_str(val) == IF val.t = "str" THEN Some(val.s) ELSE None

\* Value::as_u64: Some only for a non-negative integer that fits in 64 bits
as_u64(val) == IF val.t = "num" /\ ~val.neg THEN Some(val.w) ELSE None

\* Value::as_array
as_array(val) == IF val.t = "arr" THEN Some(val.a) ELSE None

\* variant of AsU32: a narrowing that saturates at u32::MAX
AsU32Saturating(w) ==
    IF w[3] = 0 /\ w[4] = 0 THEN <<w[1], w[2]>> ELSE <<65535, 65535>>

\* `x as u32` on a u64: the low 32 bits
AsU32(w) == <<w[1], w[2]>>

\* a <= b on u32 values
U32Le(a, b) == a[2] < b[2] \/ (a[2] = b[2] /\ a[1] <= b[1])

\* a <= b on u64 values
U64Le(a, b) ==
    \/ a[4] < b[4]
    \/ a[4] = b[4] /\ a[3] < b[3]
    \/ a[4] = b[4] /\ a[3] = b[3] /\ U32Le(a, b)

-----------------------------------------------------------------------------
(* Request normalisation: process, lines 92-135 *)

Whitespace == {" ", "\t", "\n"}

RECURSIVE trim_start(_)
trim_start(s) ==
    IF s # <<>> /\ Head(s) \in Whitespace THEN trim_start(Tail(s)) ELSE s

RECURSIVE trim_end(_)
trim_end(s) ==
    IF s # <<>> /\ s[Len(s)] \in Whitespace
    THEN trim_end(SubSeq(s, 1, Len(s) - 1))
    ELSE s

\* variant of trim: the text is taken as it came
NoTrim(s) == s

\* str::trim, as used on body.text (line 92)
trim(s) == trim_end(trim_start(s))

\* variant of is_utf16: every other value is taken for "utf-8"
EncodingLenient(encoding) ==
    IF ~encoding.some \/ encoding.v = "utf-16" THEN Some(TRUE) ELSE Some(FALSE)

\* the match on query.encoding (lines 93-100): Some(is_utf16), or None for
\* the arm that returns BAD_REQUEST
is_utf16(encoding) ==
    IF ~encoding.some \/ encoding.v = "utf-16" THEN Some(TRUE)
    ELSE IF encoding.v = "utf-8" THEN Some(FALSE)
    ELSE None

\* divvun_runtime::util::parse_accept_language followed by the projection to
\* the locale strings (lines 104-107).  The header is given as its list of
\* (locale, q) elements, q in tenths; the result is ordered by descending q
\* and elements of equal q keep the header's order.
InsertByWeight(sorted, x) ==
    LET k == Cardinality({i \in 1..Len(sorted) : sorted[i].q >= x.q})
    IN  SubSeq(sorted, 1, k) \o <<x>> \o SubSeq(sorted, k + 1, Len(sorted))

RECURSIVE SortByWeight(_)
SortByWeight(items) ==
    IF items = <<>> THEN <<>>
    ELSE InsertByWeight(SortByWeight(SubSeq(items, 1, Len(items) - 1)),
                        items[Len(items)])

parse_accept_language(items) ==
    LET sorted == SortByWeight(items)
    IN  [i \in 1..Len(sorted) |-> sorted[i].locale]

\* Vec::contains
Contains(s, x) == \E i \in 1..Len(s) : s[i] = x

\* the locale list of process (lines 103-117) and of preferences_get
\* (lines 54-68): the header's locales, then the default language unless
\* the list already contains it
ResolveLocales(hdr, lg) ==
    LET parsed == IF hdr.some THEN parse_accept_language(hdr.v) ELSE <<>>
    IN  IF lg.some /\ ~Contains(parsed, lg.v) THEN Append(parsed, lg.v)
        ELSE parsed

\* config["suggest"] (lines 120-131); `ignore` is None when the key is not set
SuggestConfig(locs, utf16, b) ==
    LET ignore_list == IF b.ignore.some THEN b.ignore ELSE b.ignore_tags
    IN  [locales |-> locs,
         encoding |-> IF utf16 THEN "utf-16" ELSE "utf-8",
         ignore |-> IF ignore_list.some /\ ignore_list.v # <<>>
                    THEN Some(ignore_list.v) ELSE None]

-----------------------------------------------------------------------------
(* Response normalisation: process, lines 161-213 *)

GetStr(obj, key) ==
    LET g == JGet(obj, key) IN IF g.some THEN as_str(g.v) ELSE None

GetU64(obj, key) ==
    LET g == JGet(obj, key) IN IF g.some THEN as_u64(g.v) ELSE None

GetArray(obj, key) ==
    LET g == JGet(obj, key) IN IF g.some THEN as_array(g.v) ELSE None

\* .iter().filter_map(|s| s.as_str()...) on rep (lines 189-191)
RECURSIVE Strings(_)
Strings(arr) ==
    IF arr = <<>> THEN <<>>
    ELSE LET s == as_str(Head(arr))
         IN  (IF s.some THEN <<s.v>> ELSE <<>>) \o Strings(Tail(arr))

\* variant of DecodeEntry: a non-string element of rep fails the entry
DecodeEntryStrictRep(obj) ==
    LET form == GetStr(obj, "form")
        beg == GetU64(obj, "beg")
        end == GetU64(obj, "end")
        err == GetStr(obj, "err")
        msg == GetArray(obj, "msg")
        rep == GetArray(obj, "rep")
        title == IF msg.some /\ JIndex(msg.v, 0).some
                 THEN as_str(JIndex(msg.v, 0).v) ELSE None
        second == IF msg.some THEN JIndex(msg.v, 1) ELSE None
        desc == IF second.some THEN as_str(second.v) ELSE None
    IN  IF form.some /\ beg.some /\ end.some /\ err.some /\ msg.some
           /\ rep.some /\ title.some /\ Len(Strings(rep.v)) = Len(rep.v)
        THEN Some([error_text |-> form.v,
                   start_index |-> AsU32(beg.v),
                   end_index |-> AsU32(end.v),
                   error_code |-> err.v,
                   description |-> IF desc.some THEN desc.v ELSE "",
                   suggestions |-> Strings(rep.v),
                   title |-> title.v])
        ELSE None

\* the closure of filter_map (lines 180-206): Some(GramcheckErrResponse), or
\* None as soon as one `?` fails
DecodeEntry(obj) ==
    LET form == GetStr(obj, "form")
        beg == GetU64(obj, "beg")
        end == GetU64(obj, "end")
        err == GetStr(obj, "err")
        msg == GetArray(obj, "msg")
        rep == GetArray(obj, "rep")
        title == IF msg.some /\ JIndex(msg.v, 0).some
                 THEN as_str(JIndex(msg.v, 0).v) ELSE None
        second == IF msg.some THEN JIndex(msg.v, 1) ELSE None
        desc == IF second.some THEN as_str(second.v) ELSE None
    IN  IF form.some /\ beg.some /\ end.some /\ err.some /\ msg.some
           /\ rep.some /\ title.some
        THEN Some([error_text |-> form.v,
                   start_index |-> AsU32(beg.v),
                   end_index |-> AsU32(end.v),
                   error_code |-> err.v,
                   description |-> IF desc.some THEN desc.v ELSE "",
                   suggestions |-> Strings(rep.v),
                   title |-> title.v])
        ELSE None

\* result_json.iter().filter_map(..).collect() (lines 178-207)
RECURSIVE Decode(_)
Decode(result_json) ==
    IF result_json = <<>> THEN <<>>
    ELSE LET e == DecodeEntry(Head(result_json))
         IN  (IF e.some THEN <<e.v>> ELSE <<>>) \o Decode(Tail(result_json))

\* the match on the pipeline output (lines 161-174): Some(array), or None
\* for the arms that return INTERNAL_SERVER_ERROR
ResultJson(out) ==
    IF out.kind = "Json" /\ out.json.t = "arr" THEN Some(out.json.a) ELSE None

\* Json(GramcheckResponse {..}).into_response() (lines 209-213)
JsonResponse(txt, errs) ==
    [status |-> OK, body |-> Some([text |-> txt, errs |-> errs])]

\* StatusCode::X.into_response()
StatusResponse(code) == [status |-> code, body |-> None]

-----------------------------------------------------------------------------
(* Inputs *)

SeqsUpTo(S, n) == UNION {[1..k -> S] : k \in 0..n}

\* Language(Option<String>), line 219
Langs == {None, Some("se")}

\* ProcessInput.text, line 20
Texts == SeqsUpTo({" ", "a"}, MaxText)

\* ProcessInput.ignore and ProcessInput.ignore_tags, lines 21-22
IgnoreLists == {None, Some(<<>>), Some(<<"typo">>)}
IgnoreTagLists == {None, Some(<<>>), Some(<<"old">>)}

\* ProcessInput, lines 18-23
Bodies ==
    {[text |-> t, ignore |-> i, ignore_tags |-> g] :
        t \in Texts, i \in IgnoreLists, g \in IgnoreTagLists}

\* ProcessQuery, lines 42-45
Queries ==
    {[encoding |-> e] :
        e \in {None, Some("utf-16"), Some("utf-8"), Some("latin1")}}

\* req.header("Accept-Language"), lines 54 and 103
HeaderItems == {[locale |-> "en", q |-> 10], [locale |-> "se", q |-> 5]}
Headers == {None} \cup {Some(h) : h \in SeqsUpTo(HeaderItems, MaxHeader)}

\* a JSON integer below 2^16, and the JSON integer 2^32 + lo
JNat(n) == JInt(FALSE, <<n, 0, 0, 0>>)
JBig(lo) == JInt(FALSE, <<lo, 0, 1, 0>>)

\* a record without one of its fields
Without(o, key) == [k \in DOMAIN o \ {key} |-> o[k]]

\* per-error objects as the pipeline's suggest command writes them: the keys
\* read at lines 181-188
FooEntry ==
    [form |-> JStr("foo"), beg |-> JNat(0), end |-> JNat(3),
     err |-> JStr("typo"),
     msg |-> JArr(<<JStr("Title"), JStr("desc")>>),
     rep |-> JArr(<<JStr("bar"), JStr("baz")>>)]

AgrEntry ==
    [form |-> JStr("x"), beg |-> JNat(5), end |-> JNat(7),
     err |-> JStr("agr"),
     msg |-> JArr(<<JStr("T2")>>),
     rep |-> JArr(<<>>)]

\* a per-error array in the positional layout
PositionalEntry ==
    JArr(<<JStr("foo"), JNat(0), JNat(3), JStr("typo"), JStr("desc"),
           JArr(<<JStr("bar"), JStr("baz")>>), JStr("Title")>>)

ShortPositionalEntry == JArr(<<JStr("foo"), JNat(0), JNat(3)>>)

\* the elements a pipeline output array is drawn from
EntryPool ==
    {JObj(FooEntry), JObj(AgrEntry)}
    \cup {JObj(Without(FooEntry, k)) : k \in DOMAIN FooEntry}
    \cup {JObj([FooEntry EXCEPT !.beg = JNat(5)]),
          JObj([FooEntry EXCEPT !.beg = JNat(3), !.end = JBig(1)]),
          JObj([FooEntry EXCEPT !.beg = JBig(0), !.end = JBig(3)]),
          JObj([FooEntry EXCEPT !.form = JNat(1)]),
          JObj([FooEntry EXCEPT !.beg = JInt(TRUE, <<1, 0, 0, 0>>)]),
          JObj([FooEntry EXCEPT !.beg = JStr("0")]),
          JObj([FooEntry EXCEPT !.end = JFloat]),
          JObj([FooEntry EXCEPT !.err = JNull]),
          JObj([FooEntry EXCEPT !.msg = JStr("Title")]),
          JObj([FooEntry EXCEPT !.msg = JArr(<<>>)]),
          JObj([FooEntry EXCEPT !.msg = JArr(<<JNat(1), JStr("desc")>>)]),
          JObj([FooEntry EXCEPT !.msg = JArr(<<JStr("Title"), JNat(3)>>)]),
          JObj([FooEntry EXCEPT !.rep = JStr("bar")]),
          JObj([FooEntry EXCEPT
                  !.rep = JArr(<<JStr("bar"), JNat(1), JNull, JStr("baz")>>)]),
          PositionalEntry, ShortPositionalEntry, JNull}

\* divvun_runtime::modules::Input, as matched at lines 161-174
JsonOutput(val) == [kind |-> "Json", json |-> val]

ArrayOutputs == {JsonOutput(JArr(a)) : a \in SeqsUpTo(EntryPool, MaxEntries)}

PositionalPayload == JObj([errs |-> JArr(<<PositionalEntry>>)])

OtherOutputs ==
    {JsonOutput(PositionalPayload),
     JsonOutput(JObj([errs |-> JArr(<<ShortPositionalEntry,
                                      PositionalEntry>>)])),
     JsonOutput(JObj([errs |-> JArr(<<JObj(FooEntry)>>)])),
     JsonOutput(JStr("[]")),
     JsonOutput(JNull),
     [kind |-> "String"],
     [kind |-> "Bytes"]}

Outputs == ArrayOutputs \cup OtherOutputs

\* the inputs of the specification that varies the request
FewOutputs ==
    {JsonOutput(JArr(<<>>)), JsonOutput(JArr(<<JObj(FooEntry)>>)),
     JsonOutput(PositionalPayload), [kind |-> "String"]}

\* the inputs of the specification that varies the pipeline output
FewBodies ==
    {[text |-> t, ignore |-> None, ignore_tags |-> None] :
        t \in {<<" ">>, <<" ", "a">>}}
FewQueries == {[encoding |-> e] : e \in {None, Some("latin1")}}
FewHeaders == {None, Some(<<[locale |-> "en", q |-> 10]>>)}

-----------------------------------------------------------------------------
(* State machine *)

NoBody == [text |-> <<>>, ignore |-> None, ignore_tags |-> None]
NoQuery == [encoding |-> None]

Init ==
    /\ lang \in Langs
    /\ pc = "idle"
    /\ route = "none"
    /\ body = NoBody
    /\ query = NoQuery
    /\ header = None
    /\ text = <<>>
    /\ locales = <<>>
    /\ config = None
    /\ createCalls = 0
    /\ forwardCalls = 0
    /\ nextCalls = 0
    /\ output = None
    /\ result = None
    /\ log = <<>>
    /\ resp = None

\* what the route's handler makes of the value `process` returned: process_post
\* passes it on (line 234), health_check keeps its status only (lines 255-258)
Reply(rt, r) == IF rt = "health" THEN StatusResponse(r.status) ELSE r

\* `process`, called for route rt, returns r
Return(rt, r) ==
    /\ result' = Some(r)
    /\ resp' = Some(Reply(rt, r))
    /\ pc' = "done"

\* process, lines 92-137: from its entry to the call of bundle.create
Process(rt, b, q, h) ==
    /\ pc = "idle"
    /\ route' = rt
    /\ body' = b
    /\ query' = q
    /\ header' = h
    /\ text' = trim(b.text)
    /\ output' = None
    /\ UNCHANGED <<lang, forwardCalls, nextCalls>>
    /\ LET utf16 == is_utf16(q.encoding)
       IN  IF ~utf16.some
           THEN /\ log' = Append(log, "Unsupported encoding")
                /\ Return(rt, StatusResponse(BAD_REQUEST))
                /\ UNCHANGED <<locales, config, createCalls>>
           ELSE /\ locales' = ResolveLocales(h, lang)
                /\ config' = Some(SuggestConfig(locales', utf16.v, b))
                /\ createCalls' = createCalls + 1
                /\ pc' = "create"
                /\ UNCHANGED <<result, log, resp>>

\* process_post, lines 226-235
ProcessPost(b, q, h) == Process("post", b, q, h)

\* health_check, lines 237-259
HealthCheck(h) == Process("health", NoBody, NoQuery, h)

\* bundle.create(config) returns Err, lines 139-142
CreateErr ==
    /\ pc = "create"
    /\ log' = Append(log, "Failed to create pipeline")
    /\ Return(route, StatusResponse(INTERNAL_SERVER_ERROR))
    /\ UNCHANGED <<lang, route, body, query, header, text, locales, config,
                   createCalls, forwardCalls, nextCalls, output>>

\* bundle.create(config) returns Ok; pipeline.forward is called and the
\* stream's first element is awaited, lines 138 and 145-147
CreateOk ==
    /\ pc = "create"
    /\ forwardCalls' = forwardCalls + 1
    /\ nextCalls' = nextCalls + 1
    /\ pc' = "next"
    /\ UNCHANGED <<lang, route, body, query, header, text, locales, config,
                   createCalls, output, result, log, resp>>

\* stream.next() yields Some(Err(e)), lines 150-153
StreamErr ==
    /\ pc = "next"
    /\ log' = Append(log, "Failed to process text")
    /\ Return(route, StatusResponse(INTERNAL_SERVER_ERROR))
    /\ UNCHANGED <<lang, route, body, query, header, text, locales, config,
                   createCalls, forwardCalls, nextCalls, output>>

\* variant of StreamNone: no output is answered as an empty error list
StreamNoneAsEmpty ==
    /\ pc = "next"
    /\ Return(route, JsonResponse(text, <<>>))
    /\ UNCHANGED <<lang, route, body, query, header, text, locales, config,
                   createCalls, forwardCalls, nextCalls, output, log>>

\* stream.next() yields None, lines 155-158
StreamNone ==
    /\ pc = "next"
    /\ log' = Append(log, "No output from pipeline")
    /\ Return(route, StatusResponse(INTERNAL_SERVER_ERROR))
    /\ UNCHANGED <<lang, route, body, query, header, text, locales, config,
                   createCalls, forwardCalls, nextCalls, output>>

\* stream.next() yields Some(Ok(out)); the rest of process, lines 149-213
StreamOk(out) ==
    /\ pc = "next"
    /\ output' = Some(out)
    /\ LET result_json == ResultJson(out)
       IN  IF result_json.some
           THEN /\ Return(route, JsonResponse(text, Decode(result_json.v)))
                /\ UNCHANGED log
           ELSE /\ log' = Append(log, IF out.kind = "Json"
                                      THEN "Expected JSON array from pipeline"
                                      ELSE "Unexpected output type from pipeline")
                /\ Return(route, StatusResponse(INTERNAL_SERVER_ERROR))
    /\ UNCHANGED <<lang, route, body, query, header, text, locales, config,
                   createCalls, forwardCalls, nextCalls>>

\* preferences_get, lines 47-83; `found` is whether the bundle has the
\* "suggest" command
PreferencesGet(h, found) ==
    /\ pc = "idle"
    /\ route' = "prefs"
    /\ header' = h
    /\ locales' = ResolveLocales(h, lang)
    /\ resp' = Some(IF found
                    THEN [status |-> OK,
                          body |-> Some([error_tags |-> locales'])]
                    ELSE StatusResponse(INTERNAL_SERVER_ERROR))
    /\ log' = IF found THEN log
              ELSE Append(log, "Suggest command not found in bundle")
    /\ pc' = "done"
    /\ UNCHANGED <<lang, body, query, text, config, createCalls, forwardCalls,
                   nextCalls, output, result>>

\* process_get, lines 221-224
ProcessGet ==
    /\ pc = "idle"
    /\ route' = "get"
    /\ resp' = Some([status |-> OK,
                     body |-> Some([html |-> IF lang.some THEN lang.v
                                             ELSE "unknown"])])
    /\ pc' = "done"
    /\ UNCHANGED <<lang, body, query, header, text, locales, config,
                   createCalls, forwardCalls, nextCalls, output, result, log>>

\* the response is sent; the server waits for the next request
Respond ==
    /\ pc = "done"
    /\ pc' = "idle"
    /\ route' = "none"
    /\ body' = NoBody
    /\ query' = NoQuery
    /\ header' = None
    /\ text' = <<>>
    /\ locales' = <<>>
    /\ config' = None
    /\ createCalls' = 0
    /\ forwardCalls' = 0
    /\ nextCalls' = 0
    /\ output' = None
    /\ result' = None
    /\ log' = <<>>
    /\ resp' = None
    /\ UNCHANGED lang

-----------------------------------------------------------------------------
(* Specifications *)

\* the routes of the server (lines 301-304), for requests drawn from the
\* given sets
PostRoot(bodies, queries, headers) ==
    /\ pc = "idle"
    /\ \E b \in bodies, q \in queries, h \in headers : ProcessPost(b, q, h)

GetHealth(headers) ==
    /\ pc = "idle"
    /\ \E h \in headers : HealthCheck(h)

GetPreferences(headers) ==
    /\ pc = "idle"
    /\ \E h \in headers, found \in BOOLEAN : PreferencesGet(h, found)

\* the pipeline yields one of the given outputs
StreamYields(outputs) ==
    /\ pc = "next"
    /\ \E out \in outputs : StreamOk(out)

\* every request, a few pipeline outputs
Next ==
    \/ PostRoot(Bodies, Queries, Headers)
    \/ GetHealth(Headers)
    \/ GetPreferences(Headers)
    \/ ProcessGet
    \/ CreateErr
    \/ CreateOk
    \/ StreamErr
    \/ StreamNone
    \/ StreamYields(FewOutputs)
    \/ Respond

Spec == Init /\ [][Next]_vars

\* a few requests, every pipeline output
NextPayload ==
    \/ PostRoot(FewBodies, FewQueries, FewHeaders)
    \/ GetHealth(FewHeaders)
    \/ GetPreferences(FewHeaders)
    \/ ProcessGet
    \/ CreateErr
    \/ CreateOk
    \/ StreamErr
    \/ StreamNone
    \/ StreamYields(Outputs)
    \/ Respond

SpecPayload == Init /\ [][NextPayload]_vars

-----------------------------------------------------------------------------
(* Vocabulary of the properties *)

\* a submit-text request (POST / or GET /health) is being handled
SubmitText == route \in {"post", "health"}

Done == pc = "done"

EncodingValid ==
    ~query.encoding.some \/ query.encoding.v \in {"utf-16", "utf-8"}

\* the text holds nothing but whitespace
Blank(t) == \A i \in 1..Len(t) : t[i] \in Whitespace

\* the pipeline produced a JSON array
ArrayOutput ==
    output.some /\ output.v.kind = "Json" /\ output.v.json.t = "arr"

StatusOnly(code) == [status |-> code, body |-> None]

\* an unsigned JSON integer
Unsigned(val) == val.t = "num" /\ ~val.neg

IsStr(val) == val.t = "str"

\* a per-error object that has every structurally required field
WellFormed(e) ==
    /\ e.t = "obj"
    /\ {"form", "beg", "end", "err", "msg", "rep"} \subseteq DOMAIN e.o
    /\ IsStr(e.o.form)
    /\ Unsigned(e.o.beg)
    /\ Unsigned(e.o.end)
    /\ IsStr(e.o.err)
    /\ e.o.msg.t = "arr"
    /\ Len(e.o.msg.a) >= 1
    /\ IsStr(e.o.msg.a[1])
    /\ e.o.rep.t = "arr"

\* the positions of the well-formed entries of a payload, and the k-th of them
WellFormedAt(p) == {i \in 1..Len(p) : WellFormed(p[i])}
Nth(S, k) == CHOOSE i \in S : Cardinality({j \in S : j <= i}) = k

\* the string elements of a JSON array, in order
StringElements(a) ==
    LET strs == SelectSeq(a, IsStr) IN [i \in 1..Len(strs) |-> strs[i].s]

\* a u64 modulo 2^32: its two low 16-bit words
Mod2p32(w) == SubSeq(w, 1, 2)

Count(s, x) == Cardinality({i \in 1..Len(s) : s[i] = x})

-----------------------------------------------------------------------------
(* Properties *)

\* C1: a submit-text request whose encoding parameter is present and is
\* neither "utf-16" nor "utf-8" is answered 400 and never reaches the
\* backend (no bundle.create, no forward, no stream read); an absent or
\* "utf-16" parameter makes the request proceed as utf-16, "utf-8" as utf-8.
C1_UnsupportedEncoding ==
    SubmitText =>
        /\ ~EncodingValid =>
              /\ Done
              /\ resp.v = StatusOnly(BAD_REQUEST)
              /\ createCalls = 0 /\ forwardCalls = 0 /\ nextCalls = 0
              /\ ~config.some
        /\ (~query.encoding.some \/ query.encoding.v = "utf-16") =>
              config.some /\ config.v.encoding = "utf-16"
        /\ (query.encoding.some /\ query.encoding.v = "utf-8") =>
              config.some /\ config.v.encoding = "utf-8"

C1_Witness ==
    /\ route = "post" /\ Done
    /\ query.encoding = Some("latin1")
    /\ resp.v.status = BAD_REQUEST

\* C2 as stated: a submit-text request whose text is blank, with a valid or
\* absent encoding, ends in success with body {text: "", errs: []} whatever
\* the backend does.
C2_EmptyTextAlwaysSucceeds ==
    (SubmitText /\ Done /\ EncodingValid /\ Blank(body.text)) =>
        /\ result.v = JsonResponse(<<>>, <<>>)
        /\ resp.v.status = OK

\* C2 amended: a blank text goes through the backend like any other text.
\* The request ends in success exactly when the pipeline was created and its
\* first stream element is a JSON array; the body is then text "" with the
\* errors decoded from that array (none when the array is empty).  Every
\* other backend outcome ends in 500.
C2_EmptyTextFollowsBackend ==
    (SubmitText /\ Done /\ EncodingValid /\ Blank(body.text)) =>
        /\ resp.v.status = result.v.status
        /\ result.v.status \in {OK, INTERNAL_SERVER_ERROR}
        /\ result.v.status = OK <=> ArrayOutput
        /\ result.v.status = OK =>
              /\ result.v.body.v.text = <<>>
              /\ result.v.body.v.errs = Decode(output.v.json.a)
              /\ output.v.json.a = <<>> => result.v.body.v.errs = <<>>

C2_Witness ==
    /\ route = "post" /\ Done
    /\ body.text = <<" ">>
    /\ result.v.status = OK
    /\ result.v.body.v.errs # <<>>

\* C3: when the payload is an array, the response succeeds and its errors
\* are exactly the well-formed entries, in their order in the payload: an
\* entry lacking a required field is dropped without failing the response,
\* and the suggestions of an entry are the string elements of its rep.
C3_MalformedEntriesDropped ==
    (SubmitText /\ Done /\ ArrayOutput) =>
        LET p == output.v.json.a
            at == WellFormedAt(p)
        IN  /\ result.v.status = OK
            /\ LET errs == result.v.body.v.errs
               IN  /\ Len(errs) = Cardinality(at)
                   /\ \A k \in 1..Len(errs) :
                         LET e == p[Nth(at, k)].o
                         IN  /\ errs[k].error_text = e.form.s
                             /\ errs[k].error_code = e.err.s
                             /\ errs[k].title = e.msg.a[1].s
                             /\ errs[k].suggestions = StringElements(e.rep.a)

C3_Witness ==
    /\ SubmitText /\ Done /\ ArrayOutput
    /\ LET p == output.v.json.a
       IN  /\ Len(p) = 2
           /\ ~WellFormed(p[1])
           /\ WellFormed(p[2])
           /\ \E i \in 1..Len(p[2].o.rep.a) : ~IsStr(p[2].o.rep.a[i])
    /\ Len(result.v.body.v.errs) = 1

\* C4 as stated: every error of every successful response has
\* start_index <= end_index.
C4_StartLeEnd ==
    (SubmitText /\ Done /\ result.v.status = OK) =>
        \A k \in 1..Len(result.v.body.v.errs) :
            U32Le(result.v.body.v.errs[k].start_index,
                  result.v.body.v.errs[k].end_index)

\* C5 as stated: the locale list resolved by submit-text and by
\* list-error-preferences has no duplicate entry, and a configured default
\* language is in it exactly once.
C5_NoDuplicateLocales ==
    ((SubmitText /\ config.some) \/ (route = "prefs" /\ Done)) =>
        /\ \A i, j \in 1..Len(locales) : locales[i] = locales[j] => i = j
        /\ lang.some => Count(locales, lang.v) = 1

\* C6: every backend failure of a submit-text request (create fails, the
\* first stream element is an error, the stream ends with no output, the
\* output is not a JSON array) ends the request in 500 without a body; at
\* most one create, one forward and one stream read happen per request.
C6_BackendFailure ==
    SubmitText =>
        /\ createCalls <= 1 /\ forwardCalls <= 1 /\ nextCalls <= 1
        /\ forwardCalls <= createCalls /\ nextCalls = forwardCalls
        /\ output.some => nextCalls = 1
        /\ (Done /\ EncodingValid) =>
              /\ createCalls = 1
              /\ ~ArrayOutput => /\ result.v = StatusOnly(INTERNAL_SERVER_ERROR)
                                 /\ resp.v = StatusOnly(INTERNAL_SERVER_ERROR)
              /\ ArrayOutput => resp.v.status = OK

C6_Witness ==
    /\ route = "post" /\ Done
    /\ createCalls = 1 /\ nextCalls = 1 /\ ~output.some
    /\ log = <<"No output from pipeline">>
    /\ resp.v = StatusOnly(INTERNAL_SERVER_ERROR)

\* C7 as stated: the positional payload
\* {"errs":[["foo",0,3,"typo","desc",["bar","baz"],"Title"]]} is answered
\* with success and exactly the one error it describes, and so is the same
\* payload with an entry of fewer than 7 elements before that entry.
C7_PositionalShape ==
    (/\ SubmitText /\ Done /\ output.some
     /\ output.v \in {JsonOutput(PositionalPayload),
                      JsonOutput(JObj([errs |-> JArr(<<ShortPositionalEntry,
                                                      PositionalEntry>>)]))}) =>
        result.v =
            JsonResponse(text,
                <<[error_text |-> "foo",
                   start_index |-> <<0, 0>>,
                   end_index |-> <<3, 0>>,
                   error_code |-> "typo",
                   description |-> "desc",
                   suggestions |-> <<"bar", "baz">>,
                   title |-> "Title"]>>)

\* the ignore fields of a request with every empty list omitted
OmitEmpty(b) ==
    [b EXCEPT !.ignore = IF @ = Some(<<>>) THEN None ELSE @,
              !.ignore_tags = IF @ = Some(<<>>) THEN None ELSE @]

\* C9 as stated: an empty ignore or ignore_tags list is treated as absent:
\* the config built equals the config built for the same request with the
\* empty lists omitted, and it never carries an empty ignore list.
C9_EmptyIgnoreIsAbsent ==
    (SubmitText /\ config.some) =>
        /\ config.v =
              SuggestConfig(locales, config.v.encoding = "utf-16",
                            OmitEmpty(body))
        /\ ~(config.v.ignore.some /\ config.v.ignore.v = <<>>)

\* C10: offsets are narrowed to 32 bits without a range check: an entry
\* whose beg or end is an unsigned integer of 2^32 or more is kept, and its
\* start_index and end_index are the backend's values modulo 2^32.
C10_OffsetsNarrowed ==
    (SubmitText /\ Done /\ ArrayOutput) =>
        LET p == output.v.json.a
            at == WellFormedAt(p)
            errs == result.v.body.v.errs
        IN  /\ result.v.status = OK
            /\ Len(errs) = Cardinality(at)
            /\ \A k \in 1..Len(errs) :
                  LET e == p[Nth(at, k)].o
                  IN  /\ errs[k].start_index = Mod2p32(e.beg.w)
                      /\ errs[k].end_index = Mod2p32(e.end.w)

\* an entry with beg <= end beyond 2^32 comes out with start_index > end_index
C10_Witness ==
    /\ SubmitText /\ Done /\ ArrayOutput
    /\ result.v.status = OK
    /\ \E i \in 1..Len(output.v.json.a) :
          LET e == output.v.json.a[i]
          IN  /\ WellFormed(e)
              /\ e.o.end.w[3] > 0
              /\ U64Le(e.o.beg.w, e.o.end.w)
              /\ Len(result.v.body.v.errs) = 1
              /\ ~U32Le(result.v.body.v.errs[1].start_index,
                        result.v.body.v.errs[1].end_index)

====
